---- MODULE Spec2Model ----
(***************************************************************************)
(* Model of the CloudCover threshold-masking code.                         *)
(*                                                                         *)
(*   cloud_detection.py : create_cloud_mask, measure_cloud_cover,          *)
(*                        apply_cloud_mask                                 *)
(*   main.py            : the pipeline that calls them on the loaded cube  *)
(*   visualize.py       : visualize_interactive_thresholding and its two   *)
(*                        callbacks onclick and update                     *)
(*                                                                         *)
(* numpy arrays are objects on a heap: a Python name holds a reference, so *)
(* that copying and aliasing are different things in the model as they are *)
(* in the program.  An array is a record [shape, data]; data maps 0-based  *)
(* index tuples to numbers.  Radiance values and thresholds are small      *)
(* integers (the comparisons of the code only need an order).              *)
(***************************************************************************)
EXTENDS Integers, Sequences, FiniteSets, TLC

\* ------------------------------------------------------------------ bounds
\* Largest number of elements of a generated cube or mask.
MaxCells == 4
\* Radiance values are 0..MaxVal.
MaxVal == 2
\* Number of heap slots (cube, an argument mask, two results).
NumRefs == 4
\* Longest text a text box holds.
MaxTextLen == 1
\* Largest number of elements of a cube the interactive viewer is opened on.
MaxViewerCells == 2

\* ----------------------------------------------------------- configuration
NUM_BANDS == 120

\* ------------------------------------------------------------------ arrays
Val == 0..MaxVal

Idx2(shape) == (0..(shape[1] - 1)) \X (0..(shape[2] - 1))

Idx3(shape) == (0..(shape[1] - 1)) \X (0..(shape[2] - 1)) \X (0..(shape[3] - 1))

\* Shapes of the cubes a loader can supply: rows, cols, bands all > 0.
CubeShapes ==
  {s \in (1..MaxCells) \X (1..MaxCells) \X (1..MaxCells) : s[1] * s[2] * s[3] <= MaxCells}

\* Shapes of 2-D grids, the zero-sized ones included.
MaskShapes ==
  {s \in (0..MaxCells) \X (0..MaxCells) : s[1] * s[2] <= MaxCells}

Cubes == UNION {{[shape |-> s, data |-> d] : d \in [Idx3(s) -> Val]} : s \in CubeShapes}

Masks == UNION {{[shape |-> s, data |-> d] : d \in [Idx2(s) -> {0, 1}]} : s \in MaskShapes}

\* ------------------------------------------------------------------- heap
Refs == 1..NumRefs

\* The content of a free heap slot.
None == [shape |-> <<>>, data |-> <<>>]

NewRef(h) == CHOOSE r \in Refs : h[r] = None /\ \A q \in Refs : h[q] = None => r <= q

\* What the garbage collector leaves once only `roots` are referenced.
Collect(h, roots) == [r \in Refs |-> IF r \in roots THEN h[r] ELSE None]

\* numpy's index normalisation along an axis of length n: a negative index
\* counts from the end; anything outside -n..n-1 raises IndexError.
OutOfBounds == -1

NormIndex(i, n) ==
  IF 0 <= i /\ i < n THEN i
  ELSE IF -n <= i /\ i < 0 THEN i + n
  ELSE OutOfBounds

\* np.zeros(shape, dtype=np.uint8): a fresh array of zeros.
zeros(h, shape) ==
  LET r == NewRef(h)
  IN [heap |-> [h EXCEPT ![r] = [shape |-> shape, data |-> [i \in Idx2(shape) |-> 0]]],
      ref |-> r]

\* Fault variant of copy: the name is bound to the same array, no copy made.
copy_alias(h, src) == [heap |-> h, ref |-> src]

\* ndarray.copy(): a fresh array with the same shape and values.
copy(h, src) ==
  LET r == NewRef(h)
  IN [heap |-> [h EXCEPT ![r] = h[src]], ref |-> r]

\* ------------------------------------------------------- cloud_detection.py
\* Fault variants of IsCloud: ties count as cloud; the test is reversed.
IsCloudGe(value, threshold) == value >= threshold

IsCloudLt(value, threshold) == value < threshold

\* The test of line 155: strictly greater than the threshold.
IsCloud(value, threshold) == value > threshold

\* The loop of create_cloud_mask from the k-th position on (row-major order).
\* The band index is resolved at each element read, so a bad band raises at
\* the first position visited and a cube with no position never raises.
RECURSIVE create_cloud_mask_loop(_, _, _, _, _, _)
create_cloud_mask_loop(h, radiance_data, band, threshold, mask, k) ==
  LET shape == h[radiance_data].shape
      num_rows == shape[1]
      num_cols == shape[2]
  IN IF k >= num_rows * num_cols
       THEN [status |-> "ok", heap |-> h, ref |-> mask]
       ELSE LET row == k \div num_cols
                col == k % num_cols
                b == NormIndex(band, shape[3])
            IN IF b = OutOfBounds
                 THEN [status |-> "IndexError", heap |-> h, ref |-> 0]
                 ELSE create_cloud_mask_loop(
                        [h EXCEPT ![mask].data[<<row, col>>] =
                           IF IsCloud(h[radiance_data].data[<<row, col, b>>], threshold)
                             THEN 1 ELSE 0],
                        radiance_data, band, threshold, mask, k + 1)

create_cloud_mask(h, radiance_data, band, threshold) ==
  LET shape == h[radiance_data].shape
      z == zeros(h, <<shape[1], shape[2]>>)
  IN create_cloud_mask_loop(z.heap, radiance_data, band, threshold, z.ref, 0)

\* np.sum over all entries of an array.
RECURSIVE SumOver(_, _)
SumOver(data, S) ==
  IF S = {} THEN 0
  ELSE LET i == CHOOSE j \in S : TRUE
       IN data[i] + SumOver(data, S \ {i})

np_sum(a) == SumOver(a.data, DOMAIN a.data)

\* Fault variant of size: len(cloud_mask), the number of rows.
size_rows(a) == a.shape[1]

\* ndarray.size of a 2-D array: the number of its elements.
size(a) == a.shape[1] * a.shape[2]

RECURSIVE Gcd(_, _)
Gcd(a, b) == IF b = 0 THEN a ELSE Gcd(b, a % b)

\* Results of a float division are kept as fractions in lowest terms, so that
\* equal ratios are equal values: 0.0 is <<0, 1>> and 1.0 is <<1, 1>>.
NaN == <<0, 0>>

Inf == <<1, 0>>

\* numpy's scalar true division of a non-negative integer by a non-negative
\* integer: 0/0 is nan and x/0 is inf (a RuntimeWarning, no exception).
true_divide(x, n) ==
  IF n = 0 THEN (IF x = 0 THEN NaN ELSE Inf)
  ELSE <<x \div Gcd(x, n), n \div Gcd(x, n)>>

measure_cloud_cover(h, cloud_mask) ==
  LET num_cloud_pixels == np_sum(h[cloud_mask])
      num_total_pixels == size(h[cloud_mask])
      cloud_cover_ratio == true_divide(num_cloud_pixels, num_total_pixels)
  IN [status |-> "ok", value |-> cloud_cover_ratio]

\* Fault variant of MaskSelects: the clear pixels are selected.
MaskSelectsClear(m) == m = 0

\* The test of line 206.
MaskSelects(m) == m = 1

\* Fault variant of Fill: the cloud pixel is dimmed, not zeroed.
FillHalve(old) == old \div 2

\* The value line 207 stores in every band of a cloud pixel.
Fill(old) == 0

\* The loop of apply_cloud_mask from the k-th position on.  cloud_mask[row, col]
\* raises IndexError when the mask has no such row or column; a mask with more
\* rows or columns than the cube is read only in its top-left corner.
RECURSIVE apply_cloud_mask_loop(_, _, _, _, _)
apply_cloud_mask_loop(h, radiance_data, cloud_mask, masked_data, k) ==
  LET shape == h[radiance_data].shape
      num_rows == shape[1]
      num_cols == shape[2]
  IN IF k >= num_rows * num_cols
       THEN [status |-> "ok", heap |-> h, ref |-> masked_data]
       ELSE LET row == k \div num_cols
                col == k % num_cols
                mr == NormIndex(row, h[cloud_mask].shape[1])
                mc == NormIndex(col, h[cloud_mask].shape[2])
            IN IF mr = OutOfBounds \/ mc = OutOfBounds
                 THEN [status |-> "IndexError", heap |-> h, ref |-> 0]
                 ELSE apply_cloud_mask_loop(
                        IF MaskSelects(h[cloud_mask].data[<<mr, mc>>])
                          THEN [h EXCEPT ![masked_data].data =
                                  [i \in DOMAIN @ |->
                                     IF i[1] = row /\ i[2] = col THEN Fill(@[i]) ELSE @[i]]]
                          ELSE h,
                        radiance_data, cloud_mask, masked_data, k + 1)

apply_cloud_mask(h, radiance_data, cloud_mask) ==
  LET c == copy(h, radiance_data)
  IN apply_cloud_mask_loop(c.heap, radiance_data, cloud_mask, c.ref, 0)

\* ------------------------------------------------------------------ state
VARIABLES
  heap,                  \* ref -> array, None for a free slot
  radiance_data,         \* ref of the cube load_datacube returned
  loaded,                \* the values the cube had when it was loaded
  op,                    \* the engine function called last
  args,                  \* its arguments
  status,                \* "ok", or the exception it raised
  result,                \* ref of the array it returned, 0 for none
  ratio,                 \* the number measure_cloud_cover returned
  prev,                  \* the result of the call before, when two are compared
  displayed_band,        \* visualize.py: displayed_band[0]
  mask_band,             \* visualize.py: mask_band[0]
  mask_threshold,        \* visualize.py: mask_threshold[0]
  cloud_mask,            \* visualize.py: cloud_mask[0]
  masked_radiance_data,  \* visualize.py: masked_radiance_data[0]
  raised,                \* the exception the last callback ended with
  band_index,            \* select_spectral_band: band_index[0]
  select_window,         \* select_spectral_band: "none", "open" (in plt.show()),
                         \* "closed" (figure closed, plt.show() not yet
                         \* returned) or "returned"
  selected_band          \* main.py: selected_band, NoBand until the selector returned

engine_vars == <<op, args, status, result, ratio, prev>>

viewer_vars ==
  <<displayed_band, mask_band, mask_threshold, cloud_mask, masked_radiance_data, raised>>

select_vars == <<band_index, select_window, selected_band>>

vars == <<heap, radiance_data, loaded, engine_vars, viewer_vars, select_vars>>

NoArgs == [band |-> 0, threshold |-> 0, mask |-> 0, at |-> <<>>, value |-> 0]

NoPrev == [threshold |-> 0, ref |-> 0]

Unset == <<-1, -1>>

\* Before load_datacube nothing is on the heap.
NotLoaded ==
  /\ heap = [r \in Refs |-> None]
  /\ radiance_data = 0
  /\ loaded = None

NoCall ==
  /\ op = "none"
  /\ args = NoArgs
  /\ status = "ok"
  /\ result = 0
  /\ ratio = Unset
  /\ prev = NoPrev

NoViewer ==
  /\ displayed_band = 0
  /\ mask_band = 0
  /\ mask_threshold = 0
  /\ cloud_mask = None
  /\ masked_radiance_data = None
  /\ raised = "none"

\* main.py line 12: selected_band = None.
NoBand == -1

\* select_spectral_band has not been called.
NoSelect ==
  /\ band_index = 0
  /\ select_window = "none"
  /\ selected_band = NoBand

Init ==
  /\ NotLoaded
  /\ NoCall
  /\ NoViewer
  /\ NoSelect

\* main.py initialization: load_datacube puts the cube np.load read on the heap.
LoadCube ==
  /\ radiance_data = 0
  /\ op = "none"
  /\ \E cube \in Cubes :
       /\ heap' = [heap EXCEPT ![1] = cube]
       /\ radiance_data' = 1
       /\ loaded' = cube
  /\ UNCHANGED <<engine_vars, viewer_vars, select_vars>>

\* --------------------------------------------------------- inputs of calls
\* Band arguments for a cube of `bands` bands: every valid index, every negative
\* index down to -bands, and one index beyond each end.
BandInputs(bands) == (-(bands + 1))..bands

\* Mask arguments for a cube of `shape`: the binary grids whose row and column
\* counts are each within one of the cube's (zero-sized grids included).
MaskInputs(shape) ==
  {m \in Masks : /\ m.shape[1] \in (shape[1] - 1)..(shape[1] + 1)
                 /\ m.shape[2] \in (shape[2] - 1)..(shape[2] + 1)}

\* Thresholds: below every radiance value, equal to each, and the largest.
Thresholds == (-1)..MaxVal

\* ------------------------------------------------------------ engine calls
\* One run makes one call on the loaded cube, then the follow-up calls on its
\* result; other runs make the other calls.
\* main.py step 3: create_cloud_mask on the loaded cube.
CreateMask ==
  /\ radiance_data # 0
  /\ op = "none"
  /\ \E band \in BandInputs(loaded.shape[3]), threshold \in Thresholds :
    LET base == Collect(heap, {radiance_data})
        r == create_cloud_mask(base, radiance_data, band, threshold)
    IN /\ heap' = Collect(r.heap, {radiance_data, r.ref})
       /\ op' = "create_cloud_mask"
       /\ args' = [NoArgs EXCEPT !.band = band, !.threshold = threshold]
       /\ status' = r.status
       /\ result' = r.ref
       /\ ratio' = Unset
       /\ prev' = NoPrev
       /\ UNCHANGED <<radiance_data, loaded, viewer_vars, select_vars>>

\* The same band thresholded again with a higher threshold; the earlier mask
\* is kept.
CreateMaskAgain ==
  /\ op = "create_cloud_mask"
  /\ status = "ok"
  /\ prev = NoPrev
  /\ \E threshold \in {t \in Thresholds : t > args.threshold} :
       LET r == create_cloud_mask(heap, radiance_data, args.band, threshold)
       IN /\ heap' = Collect(r.heap, {radiance_data, result, r.ref})
          /\ args' = [args EXCEPT !.threshold = threshold]
          /\ status' = r.status
          /\ result' = r.ref
          /\ prev' = [threshold |-> args.threshold, ref |-> result]
          /\ UNCHANGED <<op, ratio, radiance_data, loaded, viewer_vars, select_vars>>

\* measure_cloud_cover on a 2-D binary grid; the call takes no cube, and the
\* run that makes it loads none.
MeasureCover ==
  /\ radiance_data = 0
  /\ op = "none"
  /\ \E m \in Masks :
    LET a == NewRef(heap)
        h1 == [heap EXCEPT ![a] = m]
        r == measure_cloud_cover(h1, a)
    IN /\ heap' = h1
       /\ op' = "measure_cloud_cover"
       /\ args' = [NoArgs EXCEPT !.mask = a]
       /\ status' = r.status
       /\ result' = 0
       /\ ratio' = r.value
       /\ prev' = NoPrev
       /\ UNCHANGED <<radiance_data, loaded, viewer_vars, select_vars>>

\* apply_cloud_mask on the loaded cube and a 2-D binary grid, of the cube's
\* spatial shape or not.
ApplyMask ==
  /\ radiance_data # 0
  /\ op = "none"
  /\ \E m \in MaskInputs(loaded.shape) :
    LET base == Collect(heap, {radiance_data})
        a == NewRef(base)
        h1 == [base EXCEPT ![a] = m]
        r == apply_cloud_mask(h1, radiance_data, a)
    IN /\ heap' = Collect(r.heap, {radiance_data, a, r.ref})
       /\ op' = "apply_cloud_mask"
       /\ args' = [NoArgs EXCEPT !.mask = a]
       /\ status' = r.status
       /\ result' = r.ref
       /\ ratio' = Unset
       /\ prev' = NoPrev
       /\ UNCHANGED <<radiance_data, loaded, viewer_vars, select_vars>>

\* The mask argument of the last call has the cube's first two dimensions.
ShapeCompatible ==
  heap[args.mask].shape = <<loaded.shape[1], loaded.shape[2]>>

\* apply_cloud_mask on the masked cube it returned, with the same mask (the
\* follow-up calls are made after a call with a mask of the cube's shape).
ReapplyMask ==
  /\ op = "apply_cloud_mask"
  /\ status = "ok"
  /\ ShapeCompatible
  /\ LET r == apply_cloud_mask(heap, result, args.mask)
     IN /\ heap' = Collect(r.heap, {radiance_data, args.mask, result, r.ref})
        /\ op' = "reapply_cloud_mask"
        /\ status' = r.status
        /\ result' = r.ref
        /\ prev' = [threshold |-> 0, ref |-> result]
        /\ UNCHANGED <<args, ratio, radiance_data, loaded, viewer_vars, select_vars>>

\* The caller stores, into one element of the masked cube apply_cloud_mask
\* returned, a value that differs from the one it holds.
WriteResult ==
  /\ op = "apply_cloud_mask"
  /\ status = "ok"
  /\ ShapeCompatible
  /\ \E i \in DOMAIN heap[result].data :
       LET v == (heap[result].data[i] + 1) % (MaxVal + 1)
       IN /\ heap' = [heap EXCEPT ![result].data[i] = v]
          /\ op' = "write_result"
          /\ args' = [args EXCEPT !.at = i, !.value = v]
       /\ UNCHANGED <<status, result, ratio, prev, radiance_data, loaded, viewer_vars, select_vars>>

Next ==
  \/ LoadCube
  \/ CreateMask
  \/ CreateMaskAgain
  \/ MeasureCover
  \/ ApplyMask
  \/ ReapplyMask
  \/ WriteResult

Spec == Init /\ [][Next]_vars

\* ------------------------------------------------------------ visualize.py
\* The characters a text box may hold: a sign, digits, and a character that
\* is part of no number.
TextChars == {"-", "0", "1", "2", "3", "x"}

Texts == UNION {[1..n -> TextChars] : n \in 0..MaxTextLen}

Digits == {"0", "1", "2", "3", "4", "5", "6", "7", "8", "9"}

DigitValue(c) ==
  CASE c = "0" -> 0 [] c = "1" -> 1 [] c = "2" -> 2 [] c = "3" -> 3 [] c = "4" -> 4
    [] c = "5" -> 5 [] c = "6" -> 6 [] c = "7" -> 7 [] c = "8" -> 8 [] c = "9" -> 9

RECURSIVE NumeralValue(_)
NumeralValue(text) ==
  IF text = <<>> THEN 0
  ELSE 10 * NumeralValue(SubSeq(text, 1, Len(text) - 1)) + DigitValue(text[Len(text)])

\* int(text): an optional sign and one or more decimal digits; anything else
\* raises ValueError.
ParseInt(text) ==
  LET signed == Len(text) > 0 /\ text[1] \in {"-", "+"}
      body == IF signed THEN Tail(text) ELSE text
      numeral == Len(body) > 0 /\ \A k \in 1..Len(body) : body[k] \in Digits
  IN IF ~numeral THEN [ok |-> FALSE, value |-> 0]
     ELSE [ok |-> TRUE,
           value |-> IF signed /\ text[1] = "-" THEN 0 - NumeralValue(body)
                     ELSE NumeralValue(body)]

\* float(text).  Over TextChars no fraction, exponent, "inf" or "nan" can be
\* spelled, so float accepts the texts int accepts and gives the same number.
ParseFloat(text) == ParseInt(text)

\* The cubes the viewer is opened on.
ViewerCubes ==
  {c \in Cubes : c.shape[1] * c.shape[2] * c.shape[3] <= MaxViewerCells}

\* Positions of the band slider the user is taken to choose: 1 .. NUM_BANDS in
\* steps of 1, of which the model tries those up to one past the cube's last
\* band and the last one.
SliderValues(bands) == {v \in 1..NUM_BANDS : v <= bands + 1 \/ v = NUM_BANDS}

\* visualize_interactive_thresholding up to plt.show(): the cube is loaded and
\* the mask of band 0 at threshold 0 and the masked cube are computed.
InitViewer ==
  /\ NoCall
  /\ NoSelect
  /\ \E cube \in ViewerCubes :
       LET h == [r \in Refs |-> IF r = 1 THEN cube ELSE None]
           m == create_cloud_mask(h, 1, 0, 0)
           a == apply_cloud_mask(m.heap, 1, m.ref)
       IN /\ heap = h
          /\ radiance_data = 1
          /\ loaded = cube
          /\ displayed_band = 0
          /\ mask_band = 0
          /\ mask_threshold = 0
          /\ cloud_mask = m.heap[m.ref]
          /\ masked_radiance_data = a.heap[a.ref]
          /\ raised = "none"

\* The 'Enter' button callback, with the texts the two boxes hold.  An
\* exception ends the callback where it is raised (matplotlib prints it and
\* the window stays open); the assignments made before it stay.
onclick(band_text, threshold_text) ==
  LET b == ParseInt(band_text)
      t == ParseFloat(threshold_text)
      new_band == b.value - 1
      m == create_cloud_mask(heap, radiance_data, new_band, t.value)
      a == apply_cloud_mask(m.heap, radiance_data, m.ref)
  IN IF ~b.ok
       THEN /\ raised' = "ValueError"
            /\ UNCHANGED <<heap, mask_band, mask_threshold, cloud_mask, masked_radiance_data>>
     ELSE IF ~t.ok
       THEN /\ mask_band' = new_band
            /\ raised' = "ValueError"
            /\ UNCHANGED <<heap, mask_threshold, cloud_mask, masked_radiance_data>>
     ELSE IF m.status # "ok"
       THEN /\ mask_band' = new_band
            /\ mask_threshold' = t.value
            /\ raised' = m.status
            /\ heap' = Collect(m.heap, {radiance_data})
            /\ UNCHANGED <<cloud_mask, masked_radiance_data>>
     ELSE IF a.status # "ok"
       THEN /\ mask_band' = new_band
            /\ mask_threshold' = t.value
            /\ cloud_mask' = m.heap[m.ref]
            /\ raised' = a.status
            /\ heap' = Collect(a.heap, {radiance_data})
            /\ UNCHANGED masked_radiance_data
     ELSE /\ mask_band' = new_band
          /\ mask_threshold' = t.value
          /\ cloud_mask' = m.heap[m.ref]
          /\ masked_radiance_data' = a.heap[a.ref]
          /\ heap' = Collect(a.heap, {radiance_data})
          /\ raised' = IF NormIndex(displayed_band, a.heap[a.ref].shape[3]) = OutOfBounds
                         THEN "IndexError" ELSE "none"

Click ==
  /\ \E band_text \in Texts, threshold_text \in Texts : onclick(band_text, threshold_text)
  /\ UNCHANGED <<radiance_data, loaded, displayed_band, engine_vars, select_vars>>

\* The slider callback: the displayed band follows the slider; reading that
\* band of the cube raises IndexError when the cube has no such band.
update(val) ==
  /\ displayed_band' = val - 1
  /\ raised' = IF NormIndex(val - 1, heap[radiance_data].shape[3]) = OutOfBounds
                 THEN "IndexError" ELSE "none"
  /\ UNCHANGED <<mask_band, mask_threshold, cloud_mask, masked_radiance_data>>

Slide ==
  /\ \E val \in SliderValues(loaded.shape[3]) : update(val)
  /\ UNCHANGED <<heap, radiance_data, loaded, engine_vars, select_vars>>

NextViewer ==
  \/ Click
  \/ Slide

SpecViewer == InitViewer /\ [][NextViewer]_vars

\* --------------------------------- cloud_detection.py: select_spectral_band
\* The keys the user may press in the selector window.
Keys == {"enter", "escape"}

\* main.py step 1: the cube is loaded and select_spectral_band is called on
\* it; up to plt.show() it sets band_index[0] to 0 and shows band 0.
InitSelect ==
  /\ NoCall
  /\ NoViewer
  /\ \E cube \in ViewerCubes :
       /\ heap = [r \in Refs |-> IF r = 1 THEN cube ELSE None]
       /\ radiance_data = 1
       /\ loaded = cube
  /\ band_index = 0
  /\ select_window = "open"
  /\ selected_band = NoBand

\* The selector's slider callback: band_index[0] follows the slider, whose
\* range is 1 .. config.NUM_BANDS; reading that band of the cube raises
\* IndexError when the cube has no such band, after band_index[0] is set.
select_update(val) ==
  /\ band_index' = val - 1
  /\ raised' = IF NormIndex(val - 1, heap[radiance_data].shape[3]) = OutOfBounds
                 THEN "IndexError" ELSE "none"

\* The callbacks stay connected (lines 62-63) and do not test the figure: until
\* plt.show() returns the event loop may still deliver an event to them, also
\* after the figure was closed; whether it does is the backend's choice.
InEventLoop == select_window \in {"open", "closed"}

SelectSlide ==
  /\ InEventLoop
  /\ \E val \in 1..NUM_BANDS : select_update(val)
  /\ UNCHANGED <<select_window, selected_band>>
  /\ UNCHANGED <<heap, radiance_data, loaded, engine_vars>>
  /\ UNCHANGED <<displayed_band, mask_band, mask_threshold, cloud_mask, masked_radiance_data>>

\* The selector's key callback: Enter calls plt.close(fig) (no effect on a
\* figure already closed), other keys do nothing; the callback raises nothing
\* and returns to the event loop.
on_key(key) ==
  /\ select_window' = IF key = "enter" THEN "closed" ELSE select_window
  /\ raised' = "none"

SelectKey ==
  /\ InEventLoop
  /\ \E key \in Keys : on_key(key)
  /\ UNCHANGED <<band_index, selected_band, heap, radiance_data, loaded, engine_vars>>
  /\ UNCHANGED <<displayed_band, mask_band, mask_threshold, cloud_mask, masked_radiance_data>>

\* The user closes the selector window; no callback of the program runs.
SelectClose ==
  /\ select_window = "open"
  /\ select_window' = "closed"
  /\ UNCHANGED <<band_index, selected_band, heap, radiance_data, loaded, engine_vars, viewer_vars>>

\* Lines 64-66 and main.py line 14: with the figure closed plt.show() returns,
\* select_spectral_band returns band_index[0] and main binds selected_band.
select_return ==
  /\ select_window' = "returned"
  /\ selected_band' = band_index

SelectReturn ==
  /\ select_window = "closed"
  /\ select_return
  /\ UNCHANGED <<band_index, heap, radiance_data, loaded, engine_vars, viewer_vars>>

NextSelect ==
  \/ SelectSlide
  \/ SelectKey
  \/ SelectClose
  \/ SelectReturn

SpecSelect == InitSelect /\ [][NextSelect]_vars

\* ================================================================= claims
ValidBand == 0 <= args.band /\ args.band < loaded.shape[3]

SpatialShape == <<loaded.shape[1], loaded.shape[2]>>

Ones(a) == {i \in DOMAIN a.data : a.data[i] = 1}

\* C1: for a valid band, create_cloud_mask returns a grid of the cube's spatial
\* shape whose every element is 0 or 1, and an element is 1 exactly when the
\* cube's value in that band is strictly greater than the threshold (so a value
\* equal to the threshold gives 0).
C1_CreateMaskThresholds ==
  (op = "create_cloud_mask" /\ ValidBand) =>
    /\ status = "ok"
    /\ result \in Refs
    /\ heap[result].shape = SpatialShape
    /\ DOMAIN heap[result].data = Idx2(SpatialShape)
    /\ \A i \in Idx2(SpatialShape) :
         /\ heap[result].data[i] \in {0, 1}
         /\ heap[result].data[i] = 1 <=>
              loaded.data[<<i[1], i[2], args.band>>] > args.threshold

C1_Witness ==
  /\ op = "create_cloud_mask"
  /\ ValidBand
  /\ status = "ok"
  /\ \E i \in Idx2(SpatialShape) :
       /\ loaded.data[<<i[1], i[2], args.band>>] = args.threshold
       /\ heap[result].data[i] = 0
  /\ \E i \in Idx2(SpatialShape) : heap[result].data[i] = 1

\* C2: with a mask of the cube's spatial shape, apply_cloud_mask returns a grid
\* of the cube's shape in which every band of a pixel the mask marks 1 is 0 and
\* every band of a pixel the mask marks 0 has the cube's value.
C2_ApplyMaskZeroesCloud ==
  (op = "apply_cloud_mask" /\ ShapeCompatible) =>
    /\ status = "ok"
    /\ result \in Refs
    /\ heap[result].shape = loaded.shape
    /\ DOMAIN heap[result].data = Idx3(loaded.shape)
    /\ \A i \in Idx3(loaded.shape) :
         /\ heap[args.mask].data[<<i[1], i[2]>>] = 1 => heap[result].data[i] = 0
         /\ heap[args.mask].data[<<i[1], i[2]>>] = 0 => heap[result].data[i] = loaded.data[i]

C2_Witness ==
  /\ op = "apply_cloud_mask"
  /\ ShapeCompatible
  /\ status = "ok"
  /\ \E i \in Idx3(loaded.shape) :
       /\ heap[args.mask].data[<<i[1], i[2]>>] = 1
       /\ loaded.data[i] # 0
       /\ heap[result].data[i] = 0
  /\ \E i \in Idx3(loaded.shape) :
       /\ heap[args.mask].data[<<i[1], i[2]>>] = 0
       /\ heap[result].data[i] # 0

\* C3: on a non-empty binary mask with k ones out of R*C elements,
\* measure_cloud_cover returns k / (R*C): 0 for an all-zero mask, 1 for an
\* all-one mask, and always a value between 0 and 1.
C3_CoverIsOnesOverSize ==
  (op = "measure_cloud_cover" /\ DOMAIN heap[args.mask].data # {}) =>
    LET k == Cardinality(Ones(heap[args.mask]))
        n == Cardinality(DOMAIN heap[args.mask].data)
    IN /\ status = "ok"
       /\ ratio[2] > 0
       /\ ratio[1] * n = k * ratio[2]
       /\ 0 <= ratio[1] /\ ratio[1] <= ratio[2]
       /\ k = 0 => ratio = <<0, 1>>
       /\ k = n => ratio = <<1, 1>>

C3_Witness ==
  /\ op = "measure_cloud_cover"
  /\ heap[args.mask].shape = <<2, 2>>
  /\ Cardinality(Ones(heap[args.mask])) = 3
  /\ ratio = <<3, 4>>

\* C4: apply_cloud_mask with a mask whose shape differs from the cube's first
\* two dimensions fails (the code's error for a bad index is IndexError) and
\* returns no masked cube.
C4_MismatchedMaskFails ==
  (op = "apply_cloud_mask" /\ ~ShapeCompatible) =>
    (status = "IndexError" /\ result = 0)

\* C5: create_cloud_mask with a band outside 0 <= band < B, negative bands
\* included, fails (IndexError) and returns no mask.
C5_BadBandFails ==
  (op = "create_cloud_mask" /\ ~ValidBand) =>
    (status = "IndexError" /\ result = 0)

\* C6: the loaded cube keeps the values it was loaded with through every call
\* and every write to a result, and the grid apply_cloud_mask returns is not
\* the cube's own storage.
C6_CubeNeverChanges ==
  radiance_data # 0 =>
    /\ heap[radiance_data] = loaded
    /\ (op \in {"apply_cloud_mask", "reapply_cloud_mask", "write_result"} /\ status = "ok")
         => (result \in Refs /\ result # radiance_data)

C6_Witness ==
  /\ op = "write_result"
  /\ heap[result].data[args.at] = args.value
  /\ heap[radiance_data].data[args.at] # args.value
  /\ \E i \in Idx3(loaded.shape) :
       loaded.data[i] # 0 /\ heap[args.mask].data[<<i[1], i[2]>>] = 1

\* C7: masking the masked cube again with the same shape-compatible mask
\* returns a cube equal to the masked cube.
C7_MaskingIsIdempotent ==
  op = "reapply_cloud_mask" =>
    /\ status = "ok"
    /\ heap[result] = heap[prev.ref]

C7_Witness ==
  /\ op = "reapply_cloud_mask"
  /\ status = "ok"
  /\ result # prev.ref
  /\ \E i \in Idx3(loaded.shape) :
       /\ loaded.data[i] = MaxVal
       /\ heap[args.mask].data[<<i[1], i[2]>>] = 1
       /\ heap[result].data[i] = 0
  /\ \E i \in Idx3(loaded.shape) : heap[result].data[i] # 0

\* C8: for a valid band and thresholds t1 < t2, every pixel marked cloud under
\* t2 is marked cloud under t1, so the number of 1s under t2 is at most the
\* number under t1.
C8_HigherThresholdFewerClouds ==
  (op = "create_cloud_mask" /\ prev.ref # 0 /\ ValidBand /\ prev.threshold < args.threshold) =>
    /\ status = "ok"
    /\ Ones(heap[result]) \subseteq Ones(heap[prev.ref])
    /\ Cardinality(Ones(heap[result])) <= Cardinality(Ones(heap[prev.ref]))

C8_Witness ==
  /\ op = "create_cloud_mask"
  /\ prev.ref # 0
  /\ ValidBand
  /\ prev.threshold < args.threshold
  /\ Ones(heap[result]) # {}
  /\ Cardinality(Ones(heap[result])) < Cardinality(Ones(heap[prev.ref]))

\* C9: measure_cloud_cover on a zero-sized mask fails instead of returning a
\* ratio.
C9_EmptyMaskFails ==
  (op = "measure_cloud_cover" /\ DOMAIN heap[args.mask].data = {}) =>
    status # "ok"

\* C10: in the interactive viewer, after any clicks and slider moves, the stored
\* mask is the mask of the stored band and threshold, and the stored masked cube
\* is the cube masked by the stored mask.
C10_ViewerStateConsistent ==
  LET m == create_cloud_mask(heap, radiance_data, mask_band, mask_threshold)
      a == apply_cloud_mask([heap EXCEPT ![NumRefs] = cloud_mask], radiance_data, NumRefs)
  IN /\ m.status = "ok"
     /\ cloud_mask = m.heap[m.ref]
     /\ a.status = "ok"
     /\ masked_radiance_data = a.heap[a.ref]

\* C11: the band select_spectral_band returns, after any slider moves followed
\* by Enter or closing the window, is a valid index into the third dimension
\* of the cube it was called on.
C11_SelectedBandValid ==
  select_window = "returned" =>
    (0 <= selected_band /\ selected_band < loaded.shape[3])

====
